---- MODULE Spec2Model ----
(***************************************************************************)
(* State-machine model of the IndexedDB-backed Cache polyfill              *)
(* (cache-polyfill.ts: class Cache) used by the tokenizer worker.          *)
(*                                                                         *)
(* URLs are sequences of tokens, so that the regular expressions of the    *)
(* code (scheme test, fragment strip) are computed and not assumed:        *)
(*   <<"https://", "a.test/x", "#", "frag1">>  is https://a.test/x#frag1   *)
(* Every IndexedDB transaction is one atomic step (the engine isolates     *)
(* transactions on the 'caches' store); the await points between the       *)
(* transactions of one operation are separate steps, so operations of      *)
(* different callers interleave between them.                              *)
(***************************************************************************)
EXTENDS Integers, Sequences, FiniteSets, TLC

VARIABLES
    store,      \* the records of object store 'caches' (each with its primary key)
    nextKey,    \* the autoIncrement key generator of object store 'caches'
    calls,      \* per caller: the operation it issued last and how far it got
    addAll,     \* the addAll call in progress: its batch, its fetches, its promise
    widget,     \* the token counter component: its props, its timer, its postMessage queue
    worker      \* the tokenizer worker: its tokenizer map, its pending handlers, its replies

vars == <<store, nextKey, calls, addAll, widget, worker>>

\* the part of the state an operation of the cache does not touch
widgetVars == <<widget, worker>>

(***************************************************************************)
(* Bounds of the model.                                                    *)
(***************************************************************************)
\* inserts issued in one behaviour (caps the autoIncrement key generator)
MaxKey == 2

(***************************************************************************)
(* Handles: const map = new WeakMap<Cache, string>(); new Cache(name).     *)
(* Two handles share the name "v1", a third is named "v2".                 *)
(***************************************************************************)
Handles == {"h1", "h2", "h3"}

map == [h \in Handles |-> IF h = "h3" THEN "v2" ELSE "v1"]

wm(o) == map[o]

(***************************************************************************)
(* Requests and responses handed to the operations.                        *)
(***************************************************************************)
UrlX     == <<"https://", "a.test/x">>
UrlXf1   == <<"https://", "a.test/x", "#", "frag1">>
UrlXf2   == <<"https://", "a.test/x", "#", "frag2">>
UrlY     == <<"https://", "a.test/y">>
UrlFtp   == <<"ftp://", "example.com/x">>
EmptyUrl == <<>>

\* URLs with a query string
UrlXq1  == <<"https://", "a.test/x", "?", "q=1">>
UrlXq2  == <<"https://", "a.test/x", "?", "q=2">>
UrlXq1f == <<"https://", "a.test/x", "?", "q=1", "#", "frag1">>

Req(method, url) == [method |-> method, url |-> url]

Requests ==
    { Req("GET", UrlX), Req("GET", UrlXf1), Req("GET", UrlXf2), Req("GET", UrlY),
      Req("GET", UrlFtp), Req("POST", UrlX), Req("HEAD", UrlX) }

NoRequest == Req("", EmptyUrl)

NullBody == "null"

Resp(status, headers, body, url, used) ==
    [status |-> status, statusText |-> IF status = 200 THEN "OK" ELSE "Partial Content",
     headers |-> headers, body |-> body, url |-> url, bodyUsed |-> used]

PlainHeaders == << <<"content-type", <<"text/plain">>>> >>
VaryStar     == << <<"vary", <<"accept", ",", "*">>>> >>

RespHello   == Resp(200, PlainHeaders, "hello", UrlX, FALSE)
RespWorld   == Resp(200, <<>>, "world", EmptyUrl, FALSE)
RespPartial == Resp(206, PlainHeaders, "hello", UrlX, FALSE)
RespVary    == Resp(200, VaryStar, "hello", UrlX, FALSE)
RespUsed    == Resp(200, PlainHeaders, "hello", UrlX, TRUE)

Responses == {RespHello, RespWorld, RespPartial, RespVary, RespUsed}

NoResponse == Resp(0, <<>>, NullBody, EmptyUrl, FALSE)

\* what a promise was rejected with
NoError        == [name |-> "", why |-> ""]
TypeError(why) == [name |-> "TypeError", why |-> why]
EngineError    == [name |-> "DOMException", why |-> "tx.error"]

(***************************************************************************)
(* Pure helpers of the code.                                               *)
(***************************************************************************)
Range(s) == {s[i] : i \in 1..Len(s)}

\* url.replace(/#.*$/, '') and url.split('#')[0]: the prefix before the first '#'
StripFragment(url) ==
    IF \E i \in 1..Len(url) : url[i] = "#"
    THEN SubSeq(url, 1, (CHOOSE i \in 1..Len(url) :
                            /\ url[i] = "#"
                            /\ \A j \in 1..(i - 1) : url[j] # "#") - 1)
    ELSE url

\* /^((http|https):\/\/)/.test(url)
SchemeSupported(url) == Len(url) > 0 /\ url[1] \in {"http://", "https://"}

\* res.headers.get(name): the value of the header, <<>> (falsy) when there is none
HeadersGet(headers, name) ==
    IF \E i \in 1..Len(headers) : headers[i][1] = name
    THEN headers[CHOOSE i \in 1..Len(headers) : headers[i][1] = name][2]
    ELSE <<>>

\* await res.arrayBuffer(): the bytes of the body, none for a null body
ArrayBuffer(body) == IF body = NullBody THEN "" ELSE body

(***************************************************************************)
(* The object store 'caches' and its index 'cacheName'.                    *)
(***************************************************************************)
\* index.openCursor(IDBKeyRange.only(cacheName)) / index.getAll(...): the records
\* of one cache name
\* (mutant) the cursor is opened on the whole index, not on the cache name's range
IndexOnly_WholeIndex(records, cacheName) == records

IndexOnly(records, cacheName) == {r \in records : r.cacheName = cacheName}

\* the order in which a cursor or getAll on the index visits records that share
\* the index key: ascending primary key
RECURSIVE CursorOrder(_)
CursorOrder(records) ==
    IF records = {} THEN <<>>
    ELSE LET first == CHOOSE r \in records : \A q \in records : r.key <= q.key
         IN  <<first>> \o CursorOrder(records \ {first})

RECURSIVE SelectSeq2(_, _)
\* the subsequence of s of the elements in set keep
SelectSeq2(s, keep) ==
    IF s = <<>> THEN <<>>
    ELSE (IF Head(s) \in keep THEN <<Head(s)>> ELSE <<>>) \o SelectSeq2(Tail(s), keep)

(***************************************************************************)
(* new Response(cursor.value.body, initData): the Response constructor     *)
(* reads status, statusText and headers of its init dictionary; the url    *)
(* member that matchAll adds to initData is no member of ResponseInit, so  *)
(* the constructed response has the empty url of every constructed         *)
(* response.                                                               *)
(***************************************************************************)
NewResponse(body, initData) ==
    [status |-> initData.status, statusText |-> initData.statusText,
     headers |-> initData.headers, body |-> body, url |-> EmptyUrl,
     bodyUsed |-> FALSE]

\* matchAll, cursor callback: the condition under which a record is pushed
MatchAllPushes(hasReq, req, value) == hasReq /\ req.url = value.reqUrl

\* matchAll: the result array once the cursor has visited every record
MatchAllResult(records, cacheName, hasReq, req) ==
    LET visited == CursorOrder(IndexOnly(records, cacheName))
        pushed  == {r \in Range(visited) : MatchAllPushes(hasReq, req, r)}
        kept    == SelectSeq2(visited, pushed)
    IN  [i \in 1..Len(kept) |->
            NewResponse(kept[i].body, [url |-> kept[i].resUrl] @@ kept[i])]

(***************************************************************************)
(* put: the checks after the delete, and the record it builds.             *)
(***************************************************************************)
\* (mutant) the check of the partial response is left out
PutCheck_NoPartialCheck(request, res) ==
    IF ~SchemeSupported(request.url) THEN TypeError("scheme")
    ELSE IF request.method # "GET" THEN TypeError("method")
    ELSE IF HeadersGet(res.headers, "vary") # <<>>
            /\ "*" \in Range(HeadersGet(res.headers, "vary")) THEN TypeError("vary")
    ELSE IF res.body # NullBody /\ res.bodyUsed THEN TypeError("bodyUsed")
    ELSE NoError

PutCheck(request, res) ==
    IF ~SchemeSupported(request.url) THEN TypeError("scheme")
    ELSE IF request.method # "GET" THEN TypeError("method")
    ELSE IF res.status = 206 THEN TypeError("partial")
    ELSE IF HeadersGet(res.headers, "vary") # <<>>
            /\ "*" \in Range(HeadersGet(res.headers, "vary")) THEN TypeError("vary")
    ELSE IF res.body # NullBody /\ res.bodyUsed THEN TypeError("bodyUsed")
    ELSE NoError

CacheData(folder, request, res, key) ==
    [key |-> key,
     cacheName |-> folder,
     headers |-> res.headers,
     status |-> res.status,
     statusText |-> res.statusText,
     body |-> ArrayBuffer(res.body),
     reqUrl |-> StripFragment(request.url),
     resUrl |-> StripFragment(res.url),
     reqMethod |-> request.method]

(***************************************************************************)
(* delete: early return, and the records its cursor removes.               *)
(***************************************************************************)
\* (mutant) the early return taken when the method is not to be ignored
DeleteReturnsEarly_NotIgnoring(r, ignoreMethod) ==
    r.method \notin {"GET", "HEAD"} /\ ~ignoreMethod

DeleteReturnsEarly(r, ignoreMethod) == r.method \notin {"GET", "HEAD"} /\ ignoreMethod

\* (mutant) the request URL is compared with its fragment, as matchAll does
DeleteRemoves_KeepsFragment(r, ignoreMethod, value) ==
    /\ r.url = value.reqUrl
    /\ (ignoreMethod \/ r.method = value.reqMethod)

\* (mutant) the method of the record is not compared
DeleteRemoves_AnyMethod(r, ignoreMethod, value) ==
    StripFragment(r.url) = value.reqUrl

DeleteRemoves(r, ignoreMethod, value) ==
    /\ StripFragment(r.url) = value.reqUrl
    /\ (ignoreMethod \/ r.method = value.reqMethod)

\* (mutant) the cursor removes nothing
DeleteHits_None(records, cacheName, r, ignoreMethod) == {}

DeleteHits(records, cacheName, r, ignoreMethod) ==
    {v \in IndexOnly(records, cacheName) : DeleteRemoves(r, ignoreMethod, v)}

(***************************************************************************)
(* keys: early return, the search filter and the reconstructed requests.   *)
(***************************************************************************)
\* url.split('?')[0]: the prefix before the first '?'
StripSearch(url) ==
    IF \E i \in 1..Len(url) : url[i] = "?"
    THEN SubSeq(url, 1, (CHOOSE i \in 1..Len(url) :
                            /\ url[i] = "?"
                            /\ \A j \in 1..(i - 1) : url[j] # "?") - 1)
    ELSE url

\* (mutant) the early return without regard to ignoreMethod
KeysReturnsEarly_IgnoresOption(hasReq, req, ignoreMethod) == hasReq /\ req.method # "GET"

KeysReturnsEarly(hasReq, req, ignoreMethod) ==
    hasReq /\ req.method # "GET" /\ ~ignoreMethod

\* (mutant) without a request nothing is kept, as in matchAll
KeysSearchKeeps_NeedsRequest(hasReq, req, ignoreSearch, a) ==
    /\ hasReq
    /\ IF ignoreSearch
       THEN StripSearch(a.reqUrl) = StripSearch(StripFragment(req.url))
       ELSE a.reqUrl = StripFragment(req.url)

\* the filter callback of search, for one record a
KeysSearchKeeps(hasReq, req, ignoreSearch, a) ==
    IF ~hasReq THEN TRUE
    ELSE LET url == StripFragment(req.url)
         IN  IF ignoreSearch
             THEN StripSearch(a.reqUrl) = StripSearch(url)
             ELSE a.reqUrl = url

KeysResult(records, folder, hasReq, req, ignoreSearch) ==
    LET responses == CursorOrder(IndexOnly(records, folder))
        keep      == {a \in Range(responses) : KeysSearchKeeps(hasReq, req, ignoreSearch, a)}
        found     == SelectSeq2(responses, keep)
    IN  [i \in 1..Len(found) |-> Req("GET", found[i].reqUrl)]

(***************************************************************************)
(* Callers. Each caller issues one operation at a time and awaits it; the  *)
(* operations of different callers overlap.                                *)
(***************************************************************************)
Callers == {"c1", "c2"}

\* how a transaction ends: oncomplete; a request error (the error event bubbles
\* to the transaction, which then aborts); an abort without a request error
\* (a failed commit)
TxOutcomes == {"complete", "error", "abort"}

Call(op, h, hasReq, req, res, ignoreMethod, ignoreSearch, pc, settled, result) ==
    [op |-> op, h |-> h, hasReq |-> hasReq, req |-> req, res |-> res,
     ignoreMethod |-> ignoreMethod, ignoreSearch |-> ignoreSearch,
     pc |-> pc, settled |-> settled, result |-> result, error |-> NoError,
     tx |-> "none", before |-> store]

Idle ==
    [op |-> "idle", h |-> "h1", hasReq |-> FALSE, req |-> NoRequest, res |-> NoResponse,
     ignoreMethod |-> FALSE, ignoreSearch |-> FALSE,
     pc |-> "idle", settled |-> "none", result |-> <<>>, error |-> NoError,
     tx |-> "none", before |-> {}]

\* no addAll has been called
NoAddAll ==
    [h |-> "h1", batch |-> <<>>, awaited |-> FALSE, fetch |-> <<>>, fetched |-> <<>>,
     settled |-> "none", error |-> NoError, before |-> {}, atSettle |-> {}]

\* the texts and tokenizer ids the token counter is given; the length of a text
\* is a multiple of four, so that text.length / 4 is a whole number
TextAbcd     == <<"a", "b", "c", "d">>
TextAbcdefgh == <<"a", "b", "c", "d", "e", "f", "g", "h">>
Texts        == {TextAbcd, TextAbcdefgh}
ModelIds     == {"fallback", "m1"}

\* no token counter is mounted: the defaults of its props
NoWidget ==
    [mounted |-> FALSE, text |-> <<>>, modelId |-> "", tokenCount |-> 0,
     loading |-> FALSE, debounceTimer |-> FALSE, changes |-> 0]

\* no worker runs: TOKENIZER_MAPPINGS is empty and no message is under way
NoWorker ==
    [running |-> FALSE, TOKENIZER_MAPPINGS |-> [m \in ModelIds |-> "absent"],
     inbox |-> <<>>, awaiting |-> <<>>, outbox |-> <<>>]

Init ==
    /\ store = {}
    /\ nextKey = 1
    /\ calls = [c \in Callers |-> Idle]
    /\ addAll = NoAddAll
    /\ widget = NoWidget
    /\ worker = NoWorker

\* caller c issues an operation: its previous one has settled
Invoke(c, call) ==
    /\ calls[c].pc \in {"idle", "done"}
    /\ calls' = [calls EXCEPT ![c] = call]
    /\ UNCHANGED <<store, nextKey, addAll, widgetVars>>

\* the promise of caller c's operation resolves with result
Resolve(c, result, outcome) ==
    calls' = [calls EXCEPT ![c].pc = "done", ![c].settled = "resolved",
                           ![c].result = result, ![c].tx = outcome]

\* the promise of caller c's operation rejects with error
Reject(c, error, outcome) ==
    calls' = [calls EXCEPT ![c].pc = "done", ![c].settled = "rejected",
                           ![c].error = error, ![c].tx = outcome]

\* the transaction of caller c's operation ended in a way no handler of the
\* operation listens to: nothing settles its promise
NoHandler(c, outcome) ==
    calls' = [calls EXCEPT ![c].pc = "hung", ![c].tx = outcome]

(***************************************************************************)
(* match / matchAll                                                        *)
(***************************************************************************)
MatchAllCall(c, op, h, hasReq, req) ==
    /\ op \in {"match", "matchAll"}
    /\ op = "match" => hasReq
    /\ Invoke(c, IF hasReq /\ req.method = "HEAD"
                 THEN Call(op, h, hasReq, req, NoResponse, FALSE, FALSE,
                           "done", "resolved", <<>>)
                 ELSE Call(op, h, hasReq, req, NoResponse, FALSE, FALSE,
                           "tx", "pending", <<>>))

\* match: (await this.matchAll(request, options))[0]; <<>> stands for undefined
First(all) == IF all = <<>> THEN <<>> ELSE <<all[1]>>

MatchAllTx(c, outcome) ==
    /\ calls[c].op \in {"match", "matchAll"}
    /\ calls[c].pc = "tx"
    /\ IF outcome = "complete"
       THEN LET all == MatchAllResult(store, wm(calls[c].h), calls[c].hasReq, calls[c].req)
            IN  Resolve(c, IF calls[c].op = "match" THEN First(all) ELSE all, outcome)
       ELSE NoHandler(c, outcome)
    /\ UNCHANGED <<store, nextKey, addAll, widgetVars>>

(***************************************************************************)
(* delete                                                                  *)
(***************************************************************************)
DeleteCall(c, h, req, ignoreMethod) ==
    Invoke(c, IF DeleteReturnsEarly(req, ignoreMethod)
              THEN Call("delete", h, TRUE, req, NoResponse, ignoreMethod, FALSE,
                        "done", "resolved", <<FALSE>>)
              ELSE Call("delete", h, TRUE, req, NoResponse, ignoreMethod, FALSE,
                        "tx", "pending", <<>>))

DeleteTx(c, outcome) ==
    /\ calls[c].op = "delete"
    /\ calls[c].pc = "tx"
    /\ LET hits == DeleteHits(store, wm(calls[c].h), calls[c].req, calls[c].ignoreMethod)
       IN  IF outcome = "complete"
           THEN /\ store' = store \ hits
                /\ Resolve(c, <<hits # {}>>, outcome)
           ELSE /\ store' = store
                /\ NoHandler(c, outcome)
    /\ UNCHANGED <<nextKey, addAll, widgetVars>>

(***************************************************************************)
(* addAll: await Promise.all(results.map((promise) =>                      *)
(*             promise.then((a) => this.put(...a))))                       *)
(* The put of the i-th request of the batch runs as caller TaskOf(i).      *)
(***************************************************************************)
TaskOf(i) == IF i = 1 THEN "c1" ELSE "c2"

\* the promise of Promise.all once the puts stand as in cs (records is the store
\* at that moment): it rejects with the first rejection, resolves when every put
\* has resolved, and is settled once
PromiseAll(a, cs, records) ==
    IF a.settled # "pending" THEN a
    ELSE IF \E i \in 1..Len(a.batch) : cs[TaskOf(i)].settled = "rejected"
    THEN LET i == CHOOSE i \in 1..Len(a.batch) : cs[TaskOf(i)].settled = "rejected"
         IN  [a EXCEPT !.settled = "rejected", !.error = cs[TaskOf(i)].error,
                       !.atSettle = records]
    ELSE IF \A i \in 1..Len(a.batch) : cs[TaskOf(i)].settled = "resolved"
    THEN [a EXCEPT !.settled = "resolved", !.atSettle = records]
    ELSE a

(***************************************************************************)
(* put: await this.delete(request); the checks; the insert transaction.    *)
(***************************************************************************)
\* the puts that may still insert a record
PutsInFlight == {c \in Callers : calls[c].op = "put" /\ calls[c].pc \notin {"done", "hung"}}

PutCall(c, h, req, res) ==
    /\ nextKey + Cardinality(PutsInFlight) <= MaxKey
    /\ Invoke(c, Call("put", h, TRUE, req, res, FALSE, FALSE, "deleting", "pending", <<>>))

\* (mutant) put goes on to its checks without the delete having removed anything
PutDeleteTx_NotAwaited(c, outcome) ==
    /\ calls[c].op = "put"
    /\ calls[c].pc = "deleting"
    /\ outcome = "complete"
    /\ calls' = [calls EXCEPT ![c].pc = "checking", ![c].tx = outcome]
    /\ UNCHANGED <<store, nextKey, addAll, widgetVars>>

\* the transaction of the delete that put awaits
PutDeleteTx(c, outcome) ==
    /\ calls[c].op = "put"
    /\ calls[c].pc = "deleting"
    /\ IF outcome = "complete"
       THEN /\ store' = store \ DeleteHits(store, wm(calls[c].h), calls[c].req, FALSE)
            /\ calls' = [calls EXCEPT ![c].pc = "checking", ![c].tx = outcome]
       ELSE /\ store' = store
            /\ NoHandler(c, outcome)
    /\ UNCHANGED <<nextKey, addAll, widgetVars>>

\* put resumes after the delete: the checks, then the record is built
PutChecks(c) ==
    /\ calls[c].op = "put"
    /\ calls[c].pc = "checking"
    /\ IF PutCheck(calls[c].req, calls[c].res) # NoError
       THEN Reject(c, PutCheck(calls[c].req, calls[c].res), calls[c].tx)
       ELSE calls' = [calls EXCEPT ![c].pc = "inserting"]
    /\ addAll' = PromiseAll(addAll, calls', store)
    /\ UNCHANGED <<store, nextKey, widgetVars>>

\* the readwrite transaction of store.put(cache)
PutInsertTx(c, outcome) ==
    /\ calls[c].op = "put"
    /\ calls[c].pc = "inserting"
    /\ IF outcome = "complete"
       THEN /\ store' = store \cup {CacheData(wm(calls[c].h), calls[c].req, calls[c].res, nextKey)}
            /\ nextKey' = nextKey + 1
            /\ Resolve(c, <<>>, outcome)
       ELSE /\ UNCHANGED <<store, nextKey>>
            /\ IF outcome = "error"
               THEN Reject(c, EngineError, outcome)
               ELSE NoHandler(c, outcome)
    /\ addAll' = PromiseAll(addAll, calls', store')
    /\ UNCHANGED widgetVars

(***************************************************************************)
(* keys                                                                    *)
(***************************************************************************)
KeysCall(c, h, hasReq, req, ignoreMethod, ignoreSearch) ==
    Invoke(c, IF KeysReturnsEarly(hasReq, req, ignoreMethod)
              THEN Call("keys", h, hasReq, req, NoResponse, ignoreMethod, ignoreSearch,
                        "done", "resolved", <<>>)
              ELSE Call("keys", h, hasReq, req, NoResponse, ignoreMethod, ignoreSearch,
                        "tx", "pending", <<>>))

\* the readonly transaction of getAll; keys resolves in request.onsuccess
KeysTx(c, outcome) ==
    /\ calls[c].op = "keys"
    /\ calls[c].pc = "tx"
    /\ IF outcome = "complete"
       THEN Resolve(c, KeysResult(store, wm(calls[c].h), calls[c].hasReq, calls[c].req,
                                  calls[c].ignoreSearch), outcome)
       ELSE NoHandler(c, outcome)
    /\ UNCHANGED <<store, nextKey, addAll, widgetVars>>

(***************************************************************************)
(* addAll: the loop over the requests, the fetches and their checks.       *)
(***************************************************************************)
\* (mutant) the loop body without the method check
AddAllCheck_NoMethodCheck(request) ==
    IF ~SchemeSupported(request.url) THEN TypeError("scheme") ELSE NoError

\* the checks of the loop body, for one request
AddAllCheck(request) ==
    IF ~SchemeSupported(request.url) THEN TypeError("scheme")
    ELSE IF request.method # "GET" THEN TypeError("method")
    ELSE NoError

\* the index of the first request of the batch at which the loop throws, 0 if none
FirstThrow(batch) ==
    IF \E i \in 1..Len(batch) : AddAllCheck(batch[i]) # NoError
    THEN CHOOSE i \in 1..Len(batch) :
            /\ AddAllCheck(batch[i]) # NoError
            /\ \A j \in 1..(i - 1) : AddAllCheck(batch[j]) = NoError
    ELSE 0

\* res.ok
Ok(res) == res.status >= 200 /\ res.status <= 299

\* (mutant) the callback without the res.ok check
FetchCheck_NoOkCheck(res) ==
    IF res.status = 206 THEN TypeError("partial") ELSE NoError

\* (mutant) the callback without the 206 check
FetchCheck_NoPartialCheck(res) ==
    IF ~Ok(res) THEN TypeError("failed") ELSE NoError

\* the callback of fetch(clone).then(...)
FetchCheck(res) ==
    IF res.status = 206 THEN TypeError("partial")
    ELSE IF ~Ok(res) THEN TypeError("failed")
    ELSE NoError

\* a response of the network that is not ok
RespNotFound ==
    [status |-> 404, statusText |-> "Not Found", headers |-> PlainHeaders,
     body |-> "gone", url |-> UrlX, bodyUsed |-> FALSE]

\* how a fetch settles: fulfilled with a response, or rejected (network error)
FetchOutcomes ==
    {<<TRUE, r>> : r \in {RespHello, RespWorld, RespPartial, RespNotFound, RespVary}}
        \cup {<<FALSE, NoResponse>>}

\* the batches handed to addAll: none, one or two requests
BatchRequests == {Req("GET", UrlX), Req("GET", UrlY), Req("POST", UrlX), Req("GET", UrlFtp)}

Batches ==
    {<<>>} \cup {<<r>> : r \in BatchRequests}
           \cup {<<r1, r2>> : r1 \in BatchRequests, r2 \in BatchRequests}

\* addAll(requests) is called: the loop validates each request and starts its
\* fetch, and throws at the first invalid request; otherwise Promise.all awaits
\* the puts. The previous addAll and its fetches and puts have come to rest.
AddAllCall(h, batch) ==
    /\ addAll.settled # "pending"
    /\ \A i \in 1..Len(addAll.fetch) : addAll.fetch[i] # "fetching"
    /\ \A c \in Callers : calls[c].pc \in {"idle", "done", "hung"}
    /\ nextKey + (IF FirstThrow(batch) = 0 THEN Len(batch) ELSE 0) - 1 <= MaxKey
    /\ LET bad == FirstThrow(batch)
       IN  addAll' =
              [h |-> h, batch |-> batch, awaited |-> (bad = 0),
               fetch |-> [i \in 1..Len(batch) |->
                            IF bad = 0 \/ i < bad THEN "fetching" ELSE "none"],
               fetched |-> [i \in 1..Len(batch) |-> NoResponse],
               settled |-> IF bad # 0 THEN "rejected"
                           ELSE IF batch = <<>> THEN "resolved" ELSE "pending",
               error |-> IF bad # 0 THEN AddAllCheck(batch[bad]) ELSE NoError,
               before |-> store, atSettle |-> store]
    /\ calls' = [c \in Callers |-> Idle]
    /\ UNCHANGED <<store, nextKey, widgetVars>>

\* the fetch of the i-th request settles and its then-callback runs; when the
\* response passes, and addAll got to Promise.all, put is called with it
FetchSettles(i, fulfilled, res) ==
    /\ i \in 1..Len(addAll.fetch)
    /\ addAll.fetch[i] = "fetching"
    /\ LET error  == IF ~fulfilled THEN TypeError("network") ELSE FetchCheck(res)
           passed == error = NoError
           a      == [addAll EXCEPT !.fetch[i] = IF passed THEN "passed" ELSE "failed",
                                    !.fetched[i] = res]
       IN  /\ calls' = IF passed /\ addAll.awaited
                       THEN [calls EXCEPT ![TaskOf(i)] =
                               Call("put", addAll.h, TRUE, addAll.batch[i], res,
                                    FALSE, FALSE, "deleting", "pending", <<>>)]
                       ELSE calls
           /\ addAll' = IF ~passed /\ addAll.awaited /\ addAll.settled = "pending"
                        THEN [a EXCEPT !.settled = "rejected", !.error = error,
                                       !.atSettle = store]
                        ELSE a
    /\ UNCHANGED <<store, nextKey, widgetVars>>

(***************************************************************************)
(* Specifications: Spec lets the operations of two callers overlap,        *)
(* SpecSeq is one caller that awaits each operation before the next.       *)
(***************************************************************************)
\* the request argument of an operation: hasReq is FALSE when it is left out
Arguments(Rq) == {<<TRUE, r>> : r \in Rq} \cup {<<FALSE, NoRequest>>}

\* a step of caller c, whose operations use handles H, requests Rq, responses Rs
Step(c, H, Rq, Rs) ==
    \/ \E op \in {"match", "matchAll"}, h \in H, a \in Arguments(Rq) :
          MatchAllCall(c, op, h, a[1], a[2])
    \/ \E o \in TxOutcomes : MatchAllTx(c, o)
    \/ \E h \in H, r \in Rq, im \in BOOLEAN : DeleteCall(c, h, r, im)
    \/ \E o \in TxOutcomes : DeleteTx(c, o)
    \/ \E h \in H, r \in Rq, res \in Rs : PutCall(c, h, r, res)
    \/ \E o \in TxOutcomes : PutDeleteTx(c, o)
    \/ PutChecks(c)
    \/ \E o \in TxOutcomes : PutInsertTx(c, o)
    \/ \E h \in H : KeysCall(c, h, FALSE, NoRequest, FALSE, FALSE)
    \/ \E h \in H, r \in Rq, im \in BOOLEAN, is \in BOOLEAN :
          KeysCall(c, h, TRUE, r, im, is)
    \/ \E o \in TxOutcomes : KeysTx(c, o)

\* two callers, each on its own handle of cache name "v1", writing the same key
Next ==
    \/ Step("c1", {"h1"}, {Req("GET", UrlX)}, {RespHello, RespWorld})
    \/ Step("c2", {"h2"}, {Req("GET", UrlX)}, {RespHello, RespWorld})

Spec == Init /\ [][Next]_vars

\* one caller, handles of two cache names, every request and response
NextSeq == Step("c1", {"h1", "h3"}, Requests, Responses)

SpecSeq == Init /\ [][NextSeq]_vars

\* one addAll at a time through handle h1; the puts of its requests overlap
NextAddAll ==
    \/ \E b \in Batches : AddAllCall("h1", b)
    \/ \E i \in 1..2, f \in FetchOutcomes : FetchSettles(i, f[1], f[2])
    \/ \E c \in Callers, o \in TxOutcomes : PutDeleteTx(c, o)
    \/ \E c \in Callers : PutChecks(c)
    \/ \E c \in Callers, o \in TxOutcomes : PutInsertTx(c, o)

SpecAddAll == Init /\ [][NextAddAll]_vars

\* the requests put and keys are called with where query strings matter
KeysPutRequests == {Req("GET", UrlX), Req("GET", UrlXq1), Req("GET", UrlXq2), Req("GET", UrlY)}

KeysRequests ==
    { Req("GET", UrlX), Req("GET", UrlXq1), Req("GET", UrlXq1f), Req("GET", UrlXf1),
      Req("POST", UrlXq1), Req("HEAD", UrlX) }

\* one caller that stores URLs with query strings and lists keys of a request
NextKeys ==
    \/ \E h \in {"h1", "h3"}, r \in KeysPutRequests : PutCall("c1", h, r, RespHello)
    \/ \E o \in TxOutcomes : PutDeleteTx("c1", o)
    \/ PutChecks("c1")
    \/ \E o \in TxOutcomes : PutInsertTx("c1", o)
    \/ \E h \in {"h1", "h3"}, r \in KeysRequests, im \in BOOLEAN, is \in BOOLEAN :
          KeysCall("c1", h, TRUE, r, im, is)
    \/ \E o \in TxOutcomes : KeysTx("c1", o)

SpecKeys == Init /\ [][NextKeys]_vars

(***************************************************************************)
(* The token counter and its tokenizer worker.                             *)
(* widget: the props of the component, whether its debounce timer is       *)
(* pending, and how often a prop was changed.  worker: TOKENIZER_MAPPINGS  *)
(* (per model id: absent, loading, loaded, failed), the messages posted to *)
(* the worker (inbox), the handlers suspended at await tokenizerPromise    *)
(* (awaiting) and the responses posted back (outbox).                      *)
(***************************************************************************)
\* the number of prop changes after mounting
MaxChanges == 3

\* tokenizer.encode(text).length of a pretrained tokenizer; the tokenizers of the
\* model have one token per character
EncodeLength(text) == Len(text)

\* countTokens of the fallback tokenizer: text.length / 4
CountTokens(text) == Len(text) \div 4

\* tokenLength as the handler computes it with the tokenizer of modelId
TokenLength(modelId, text) ==
    IF modelId = "fallback" THEN CountTokens(text) ELSE EncodeLength(text)

\* the response the handler posts for a message
Response(data) ==
    [modelId |-> data.modelId, text |-> data.text,
     length |-> TokenLength(data.modelId, data.text)]

\* the reactive block: loading is set, the timer is cleared and set again
ReactiveBlock(w) == [w EXCEPT !.loading = TRUE, !.debounceTimer = TRUE]

\* the component is created with its props; the reactive block runs once
Mount(text, modelId) ==
    /\ ~widget.mounted
    /\ widget' = ReactiveBlock([NoWidget EXCEPT !.mounted = TRUE, !.text = text,
                                                !.modelId = modelId])
    /\ worker' = [NoWorker EXCEPT !.running = TRUE]
    /\ UNCHANGED <<store, nextKey, calls, addAll>>

\* the parent changes the text prop
SetText(text) ==
    /\ widget.mounted
    /\ widget.changes < MaxChanges
    /\ text # widget.text
    /\ widget' = ReactiveBlock([widget EXCEPT !.text = text, !.changes = @ + 1])
    /\ UNCHANGED <<store, nextKey, calls, addAll, worker>>

\* the parent changes the modelId prop
SetModelId(modelId) ==
    /\ widget.mounted
    /\ widget.changes < MaxChanges
    /\ modelId # widget.modelId
    /\ widget' = ReactiveBlock([widget EXCEPT !.modelId = modelId, !.changes = @ + 1])
    /\ UNCHANGED <<store, nextKey, calls, addAll, worker>>

\* the debounce timer fires: the current modelId and text are posted
TimerFires ==
    /\ widget.mounted
    /\ widget.debounceTimer
    /\ widget' = [widget EXCEPT !.debounceTimer = FALSE]
    /\ worker' = [worker EXCEPT !.inbox =
                      Append(@, [modelId |-> widget.modelId, text |-> widget.text])]
    /\ UNCHANGED <<store, nextKey, calls, addAll>>

\* self.onmessage of the worker for the next message: the tokenizer promise is
\* looked up or created, and the handler goes on at once when the promise is
\* resolved, is suspended while it is pending and throws when it is rejected
WorkerOnMessage ==
    /\ worker.running
    /\ worker.inbox # <<>>
    /\ LET data    == Head(worker.inbox)
           known   == worker.TOKENIZER_MAPPINGS[data.modelId]
           promise == IF known # "absent" THEN known
                      ELSE IF data.modelId = "fallback" THEN "loaded" ELSE "loading"
       IN  worker' =
              [worker EXCEPT
                 !.inbox = Tail(@),
                 !.TOKENIZER_MAPPINGS[data.modelId] = promise,
                 !.awaiting = IF promise = "loading" THEN Append(@, data) ELSE @,
                 !.outbox = IF promise = "loaded" THEN Append(@, Response(data)) ELSE @]
    /\ UNCHANGED <<store, nextKey, calls, addAll, widget>>

\* the messages of seq for modelId answered in order, the others dropped
RECURSIVE Replies(_, _)
Replies(seq, modelId) ==
    IF seq = <<>> THEN <<>>
    ELSE IF Head(seq).modelId = modelId
         THEN <<Response(Head(seq))>> \o Replies(Tail(seq), modelId)
         ELSE Replies(Tail(seq), modelId)

\* the messages of seq that are not for modelId
RECURSIVE Others(_, _)
Others(seq, modelId) ==
    IF seq = <<>> THEN <<>>
    ELSE IF Head(seq).modelId = modelId
         THEN Others(Tail(seq), modelId)
         ELSE <<Head(seq)>> \o Others(Tail(seq), modelId)

\* AutoTokenizer.from_pretrained(modelId) settles: the handlers awaiting it go on
\* in the order they were suspended, or throw when it was rejected
TokenizerLoads(modelId, loaded) ==
    /\ worker.running
    /\ worker.TOKENIZER_MAPPINGS[modelId] = "loading"
    /\ worker' =
          [worker EXCEPT
             !.TOKENIZER_MAPPINGS[modelId] = IF loaded THEN "loaded" ELSE "failed",
             !.awaiting = Others(@, modelId),
             !.outbox = IF loaded THEN @ \o Replies(worker.awaiting, modelId) ELSE @]
    /\ UNCHANGED <<store, nextKey, calls, addAll, widget>>

\* worker.onmessage of the component for the next response
WidgetOnMessage ==
    /\ widget.mounted
    /\ worker.outbox # <<>>
    /\ LET data == Head(worker.outbox)
       IN  widget' = [widget EXCEPT
                         !.tokenCount = data.length,
                         !.loading = IF data.text = widget.text THEN FALSE ELSE @]
    /\ worker' = [worker EXCEPT !.outbox = Tail(@)]
    /\ UNCHANGED <<store, nextKey, calls, addAll>>

NextWidget ==
    \/ \E t \in Texts, m \in ModelIds : Mount(t, m)
    \/ \E t \in Texts : SetText(t)
    \/ \E m \in ModelIds : SetModelId(m)
    \/ TimerFires
    \/ WorkerOnMessage
    \/ \E m \in ModelIds, loaded \in BOOLEAN : TokenizerLoads(m, loaded)
    \/ WidgetOnMessage

SpecWidget == Init /\ [][NextWidget]_vars

(***************************************************************************)
(* Vocabulary of the properties. These say what the specification expects  *)
(* and are written without the operators that model the code.              *)
(***************************************************************************)
\* the URL of the model's requests with its fragment removed
WithoutFragment(url) == IF url \in {UrlXf1, UrlXf2} THEN UrlX ELSE url

\* the cache name a handle was constructed with
NameOf(h) == IF h \in {"h1", "h2"} THEN "v1" ELSE "v2"

\* record r of cache name `name` is the one a put of request R leaves
MatchesRequest(r, name, R) ==
    /\ r.cacheName = name
    /\ r.reqUrl = WithoutFragment(R.url)
    /\ r.reqMethod = R.method

Matching(records, name, R) == {r \in records : MatchesRequest(r, name, R)}

\* record r holds the content of response res
HoldsContentOf(r, res) ==
    /\ r.status = res.status
    /\ r.statusText = res.statusText
    /\ r.headers = res.headers
    /\ r.body = res.body
    /\ r.resUrl = WithoutFragment(res.url)

\* response out carries the content of record r
CarriesContentOf(out, r) ==
    /\ out.status = r.status
    /\ out.statusText = r.statusText
    /\ out.headers = r.headers
    /\ out.body = r.body

Resolved(c, op) == calls[c].op = op /\ calls[c].settled = "resolved"

\* put arguments the specification says put rejects
RejectedByPut(req, res) ==
    \/ req.method # "GET"
    \/ req.url = UrlFtp
    \/ res.status = 206
    \/ res = RespVary
    \/ res.bodyUsed

(***************************************************************************)
(* C1. Every validation error of put is raised before any storage          *)
(* mutation: when a put has rejected with a type error, the stored records *)
(* are those stored when put was called (one caller, nothing else in       *)
(* flight).  Checked under SpecSeq.                                        *)
(***************************************************************************)
C1_ValidationBeforeMutation ==
    \A c \in Callers :
        (calls[c].op = "put" /\ calls[c].settled = "rejected"
            /\ calls[c].error.name = "TypeError")
        => store = calls[c].before

(***************************************************************************)
(* C2. With one sequential caller, at no point do two records of a cache   *)
(* name match the same request, and when a put has completed exactly one   *)
(* record matches its request and holds the content of its response (so    *)
(* after put(R, Resp1); put(R, Resp2) it is Resp2's).  Checked under       *)
(* SpecSeq.                                                                *)
(***************************************************************************)
C2_SequentialPutReplaces ==
    /\ \A r1, r2 \in store :
          (r1.cacheName = r2.cacheName /\ r1.reqUrl = r2.reqUrl
              /\ r1.reqMethod = r2.reqMethod) => r1 = r2
    /\ \A c \in Callers :
          Resolved(c, "put") =>
              LET found == Matching(store, NameOf(calls[c].h), calls[c].req)
              IN  /\ Cardinality(found) = 1
                  /\ \A r \in found : HoldsContentOf(r, calls[c].res)

\* a put has completed that replaced a record of the same request holding
\* another response
C2_Witness ==
    \E c \in Callers :
        /\ Resolved(c, "put")
        /\ \E r \in Matching(calls[c].before, NameOf(calls[c].h), calls[c].req) :
              r.body # calls[c].res.body
        /\ \E r \in store : r.body = calls[c].res.body

(***************************************************************************)
(* C3. After put(R, Resp) has completed, match(R) on the same cache name   *)
(* returns a response with the status, statusText, headers and body of     *)
(* Resp and the URL of Resp without fragment: a completed put leaves a     *)
(* record with that content, and a completed match of a GET request for    *)
(* which such a record is stored returns it.  Checked under SpecSeq.       *)
(***************************************************************************)
C3_MatchReturnsWhatWasPut ==
    \A c \in Callers :
        /\ Resolved(c, "put") =>
              \E r \in Matching(store, NameOf(calls[c].h), calls[c].req) :
                  HoldsContentOf(r, calls[c].res)
        /\ (Resolved(c, "match") /\ calls[c].req.method = "GET") =>
              \A r \in Matching(store, NameOf(calls[c].h), calls[c].req) :
                  /\ Len(calls[c].result) = 1
                  /\ CarriesContentOf(calls[c].result[1], r)
                  /\ calls[c].result[1].url = r.resUrl

(***************************************************************************)
(* C4. Fragments are ignored on both sides of matching: when a record for  *)
(* https://a.test/x is stored (as a put of https://a.test/x#frag1 leaves   *)
(* it), a match of GET https://a.test/x#frag2, or of GET https://a.test/x, *)
(* on that cache name returns a response.  Checked under SpecSeq.          *)
(***************************************************************************)
C4_FragmentsIgnored ==
    \A c \in Callers :
        (/\ Resolved(c, "match")
         /\ calls[c].req \in {Req("GET", UrlXf2), Req("GET", UrlX)}
         /\ \E r \in store : r.cacheName = NameOf(calls[c].h) /\ r.reqUrl = UrlX)
        => calls[c].result # <<>>

(***************************************************************************)
(* C5. matchAll without a request returns one response per record stored   *)
(* for the cache name of the handle.  Checked under SpecSeq.               *)
(***************************************************************************)
C5_MatchAllReturnsAll ==
    \A c \in Callers :
        (Resolved(c, "matchAll") /\ ~calls[c].hasReq)
        => Len(calls[c].result)
             = Cardinality({r \in store : r.cacheName = NameOf(calls[c].h)})

(***************************************************************************)
(* C6. A completed delete(R) (default options) has removed exactly the     *)
(* records of the cache name whose reqUrl is R's URL without fragment and  *)
(* whose method is R's, and returned true exactly when there was one: so   *)
(* it returns true after a put of R, false and an unchanged store when no  *)
(* record was stored; and a completed match(R) returns absent when no      *)
(* record for R's URL is stored in the cache name.  Checked under SpecSeq. *)
(***************************************************************************)
C6_DeleteRemovesAndReports ==
    \A c \in Callers :
        /\ (Resolved(c, "delete") /\ ~calls[c].ignoreMethod) =>
              LET hit == Matching(calls[c].before, NameOf(calls[c].h), calls[c].req)
              IN  /\ store = calls[c].before \ hit
                  /\ calls[c].result = <<hit # {}>>
        /\ (Resolved(c, "match")
              /\ ~\E r \in store : /\ r.cacheName = NameOf(calls[c].h)
                                   /\ r.reqUrl = WithoutFragment(calls[c].req.url))
              => calls[c].result = <<>>

\* a delete has returned true, having removed the record of its request and
\* kept a record of the other cache name for the same request
C6_Witness ==
    \E c \in Callers :
        /\ Resolved(c, "delete")
        /\ ~calls[c].ignoreMethod
        /\ calls[c].result = <<TRUE>>
        /\ Matching(calls[c].before, NameOf(calls[c].h), calls[c].req) # {}
        /\ Matching(store, NameOf(calls[c].h), calls[c].req) = {}
        /\ store # {}

(***************************************************************************)
(* C7. When the transaction an operation opened fails (error or abort),    *)
(* the promise of the operation is rejected with the engine's error.       *)
(* A failed transaction is the last event of its operation, so the state   *)
(* right after the failure is final for the promise.  Checked under        *)
(* SpecSeq.                                                                *)
(***************************************************************************)
C7_EngineFailureRejects ==
    \A c \in Callers :
        calls[c].tx \in {"error", "abort"}
        => (calls[c].settled = "rejected" /\ calls[c].error = EngineError)

(***************************************************************************)
(* C8. Cache instances are isolated by name: a step of an operation issued *)
(* through a handle named A leaves the records of every other cache name   *)
(* as they are, and what match, matchAll and keys return through that      *)
(* handle comes from records of cache name A.  Checked under SpecSeq.      *)
(***************************************************************************)
C8_IsolatedByName ==
    [][\A c \in Callers :
          calls'[c] # calls[c] =>
              LET A    == NameOf(calls'[c].h)
                  own  == {r \in store : r.cacheName = A}
                  done == calls'[c].settled = "resolved"
              IN  /\ {r \in store' : r.cacheName # A} = {r \in store : r.cacheName # A}
                  /\ (done /\ calls'[c].op \in {"match", "matchAll"}) =>
                        \A i \in 1..Len(calls'[c].result) :
                            \E r \in own : CarriesContentOf(calls'[c].result[i], r)
                  /\ (done /\ calls'[c].op = "keys") =>
                        \A i \in 1..Len(calls'[c].result) :
                            \E r \in own : calls'[c].result[i].url = r.reqUrl
      ]_vars

\* both cache names hold a record for the same URL and method with different
\* content, and a match through one of the handles has returned a response
C8_Witness ==
    \E c \in Callers :
        /\ Resolved(c, "match")
        /\ calls[c].result # <<>>
        /\ \E r1, r2 \in store :
              /\ r1.cacheName = NameOf(calls[c].h)
              /\ r2.cacheName # NameOf(calls[c].h)
              /\ r1.reqUrl = r2.reqUrl
              /\ r1.reqMethod = r2.reqMethod
              /\ r1.body # r2.body
              /\ calls[c].result[1].body = r1.body

(***************************************************************************)
(* C9. Conflicting writes through handles that share a cache name are      *)
(* last-writer-wins: once the puts for a request have completed, also when *)
(* they overlapped, a match for that request through a handle of the name  *)
(* returns the content of the put whose insert was committed last (the     *)
(* matching record with the greatest key).  The match is one during which  *)
(* the store did not change: keys are never reused, so the store equals    *)
(* the store at the call only if no transaction changed it in between.     *)
(* Checked under Spec.                                                     *)
(***************************************************************************)
C9_LastWriterWins ==
    \A c \in Callers :
        (/\ Resolved(c, "match")
         /\ calls[c].before = store
         /\ \A d \in Callers : calls[d].op = "put" => calls[d].pc = "done")
        => LET found == Matching(store, NameOf(calls[c].h), calls[c].req)
           IN  found # {} =>
                  /\ calls[c].result # <<>>
                  /\ \A r \in found :
                        (\A q \in found : q.key <= r.key)
                        => CarriesContentOf(calls[c].result[1], r)

(***************************************************************************)
(* C10. A put of a POST request, of an ftp:// URL, of a 206 response, of a *)
(* response whose Vary header contains '*' or of a response whose body is  *)
(* already consumed never resolves and never reaches its insert: once its  *)
(* checks have run it is rejected with a type error, and no record has     *)
(* been added since it was called.  Checked under SpecSeq.                 *)
(***************************************************************************)
C10_PutRejectsInvalid ==
    \A c \in Callers :
        (calls[c].op = "put" /\ RejectedByPut(calls[c].req, calls[c].res)) =>
            /\ calls[c].settled # "resolved"
            /\ calls[c].pc # "inserting"
            /\ calls[c].pc = "done" =>
                  (calls[c].settled = "rejected" /\ calls[c].error.name = "TypeError")
            /\ store \subseteq calls[c].before

\* a put of a 206 response has been rejected while the store holds a record
C10_Witness ==
    \E c \in Callers :
        /\ calls[c].op = "put"
        /\ calls[c].res.status = 206
        /\ calls[c].req.method = "GET"
        /\ calls[c].settled = "rejected"
        /\ calls[c].error.name = "TypeError"
        /\ store # {}

(***************************************************************************)
(* C11. keys() with no argument returns exactly one entry per record       *)
(* stored for the cache name of the handle, each with the reqUrl of its    *)
(* record, also when several records are stored for the same URL: the      *)
(* step in which the call resolves yields the records of the store at that *)
(* step.  Checked under Spec.                                              *)
(***************************************************************************)
C11_KeysListsEveryRecord ==
    [][\A c \in Callers :
        (/\ calls[c].op = "keys" /\ calls[c].settled = "pending"
         /\ ~calls[c].hasReq
         /\ calls'[c].op = "keys" /\ calls'[c].settled = "resolved") =>
            LET own == {r \in store : r.cacheName = NameOf(calls[c].h)}
                out == calls'[c].result
            IN  /\ Len(out) = Cardinality(own)
                /\ \A r \in own :
                      Cardinality({i \in 1..Len(out) : out[i].url = r.reqUrl})
                        = Cardinality({q \in own : q.reqUrl = r.reqUrl})]_vars

\* keys() has returned two entries for two records of the same URL
C11_Witness ==
    \E c \in Callers :
        /\ Resolved(c, "keys")
        /\ ~calls[c].hasReq
        /\ Len(calls[c].result) = 2
        /\ calls[c].result[1].url = calls[c].result[2].url
        /\ \E r1, r2 \in store : r1 # r2 /\ r1.reqUrl = r2.reqUrl

(***************************************************************************)
(* C14. match and matchAll match by URL and method: every record put       *)
(* stores has method GET, so a completed match or matchAll of a request    *)
(* with another method (POST, HEAD) returns absent / an empty sequence.    *)
(* Checked under SpecSeq.                                                  *)
(***************************************************************************)
C14_MethodMustMatch ==
    /\ \A r \in store : r.reqMethod = "GET"
    /\ \A c \in Callers :
          (/\ calls[c].op \in {"match", "matchAll"}
           /\ calls[c].settled = "resolved"
           /\ calls[c].hasReq
           /\ calls[c].req.method # "GET")
          => calls[c].result = <<>>

(***************************************************************************)
(* C16. delete returns false without opening a transaction, leaving the    *)
(* store as it was, exactly when the request method is neither GET nor     *)
(* HEAD and ignoreMethod is true; in every other case a transaction scans  *)
(* the records of the cache name, and with ignoreMethod and a GET or HEAD  *)
(* request a completed delete has removed the records with the request's   *)
(* URL whatever their method.  Checked under SpecSeq.                      *)
(***************************************************************************)
C16_DeleteNoOpExactlyWhen ==
    \A c \in Callers :
        calls[c].op = "delete" =>
            LET R     == calls[c].req
                noOp  == R.method \notin {"GET", "HEAD"} /\ calls[c].ignoreMethod
                byUrl == {r \in calls[c].before :
                             /\ r.cacheName = NameOf(calls[c].h)
                             /\ r.reqUrl = WithoutFragment(R.url)}
            IN  /\ noOp => /\ calls[c].settled = "resolved"
                           /\ calls[c].result = <<FALSE>>
                           /\ calls[c].tx = "none"
                           /\ store = calls[c].before
                /\ ~noOp => (calls[c].pc = "tx" \/ calls[c].tx # "none")
                /\ (~noOp /\ calls[c].ignoreMethod /\ calls[c].settled = "resolved") =>
                       /\ store = calls[c].before \ byUrl
                       /\ calls[c].result = <<byUrl # {}>>

\* delete(POST x, ignoreMethod) has returned false and left the record of x
C16_Witness ==
    \E c \in Callers :
        /\ Resolved(c, "delete")
        /\ calls[c].req.method = "POST"
        /\ calls[c].ignoreMethod
        /\ calls[c].result = <<FALSE>>
        /\ \E r \in store : /\ r.cacheName = NameOf(calls[c].h)
                            /\ r.reqUrl = WithoutFragment(calls[c].req.url)

(***************************************************************************)
(* C13. At most one record per key is not guaranteed under concurrent      *)
(* writers: two puts of the same request on the same cache name can both   *)
(* complete and leave two records that match the request.  When they do,   *)
(* the two puts overlapped: neither record was in the store when either    *)
(* put was called, and each put's response is held by one of the records.  *)
(* Checked under Spec.                                                     *)
(***************************************************************************)
C13_TwoRecordsOnlyFromOverlap ==
    (/\ Resolved("c1", "put") /\ Resolved("c2", "put")
     /\ calls["c1"].req = calls["c2"].req
     /\ NameOf(calls["c1"].h) = NameOf(calls["c2"].h))
    => \A r1, r2 \in Matching(store, NameOf(calls["c1"].h), calls["c1"].req) :
          r1 # r2 =>
             /\ {r1, r2} \cap (calls["c1"].before \cup calls["c2"].before) = {}
             /\ \/ HoldsContentOf(r1, calls["c1"].res) /\ HoldsContentOf(r2, calls["c2"].res)
                \/ HoldsContentOf(r2, calls["c1"].res) /\ HoldsContentOf(r1, calls["c2"].res)

\* both puts have completed and two records of the cache name match the request
C13_Witness ==
    /\ Resolved("c1", "put") /\ Resolved("c2", "put")
    /\ calls["c1"].req = calls["c2"].req
    /\ NameOf(calls["c1"].h) = NameOf(calls["c2"].h)
    /\ Cardinality(Matching(store, NameOf(calls["c1"].h), calls["c1"].req)) = 2

(***************************************************************************)
(* C18. A replacing put is not atomic for readers: between the commit of   *)
(* its delete transaction and the commit of its insert transaction none of *)
(* the records that matched R when put was called is in the store, so a    *)
(* match(R) overlapping the put can return absent although R was stored    *)
(* before the put and is stored after it.  Checked under Spec.             *)
(***************************************************************************)
C18_PutLeavesGapForReaders ==
    \A c \in Callers :
        (calls[c].op = "put" /\ calls[c].pc \in {"checking", "inserting"}) =>
            Matching(calls[c].before, NameOf(calls[c].h), calls[c].req) \cap store = {}

\* a put that replaced a record has completed, and a match called while the old
\* record was stored has returned absent
C18_Witness ==
    \E c, d \in Callers :
        /\ Resolved(c, "put")
        /\ Matching(calls[c].before, NameOf(calls[c].h), calls[c].req) # {}
        /\ Matching(store, NameOf(calls[c].h), calls[c].req) # {}
        /\ Resolved(d, "match")
        /\ calls[d].req = calls[c].req
        /\ NameOf(calls[d].h) = NameOf(calls[c].h)
        /\ calls[d].before = calls[c].before
        /\ calls[d].result = <<>>

(***************************************************************************)
(* Vocabulary of the addAll claims.                                        *)
(***************************************************************************)
\* the positions of the batch of the current addAll
Positions == 1..Len(addAll.batch)

\* a request addAll does not accept: scheme not http(s), or method not GET
InvalidForAddAll(R) == R.url = UrlFtp \/ R.method # "GET"

\* the fetch of position i has settled
FetchDone(i) == addAll.fetch[i] \in {"passed", "failed"}

\* the fetch of position i has settled and failed: a network error (no
\* response), status 206, or a status outside 200..299
FetchFailed(i) ==
    /\ FetchDone(i)
    /\ \/ addAll.fetched[i].status = 206
       \/ addAll.fetched[i].status < 200
       \/ addAll.fetched[i].status > 299

\* the put of position i, with the request of the batch and its fetched response
PutOf(i) == calls[IF i = 1 THEN "c1" ELSE "c2"]

IsPutOf(i) ==
    /\ PutOf(i).op = "put"
    /\ PutOf(i).req = addAll.batch[i]
    /\ PutOf(i).res = addAll.fetched[i]
    /\ NameOf(PutOf(i).h) = NameOf(addAll.h)

(***************************************************************************)
(* C12. addAll completes successfully only once every request of the batch *)
(* has been fetched and stored: when its promise is resolved, every fetch   *)
(* has passed, the put of every fetched response has completed and a       *)
(* record matching every request is in the store; and when a request is    *)
(* invalid or a fetch has failed, the promise is rejected.  Checked under  *)
(* SpecAddAll.                                                             *)
(***************************************************************************)
C12_AddAllResolvesWhenAllStored ==
    /\ addAll.settled = "resolved" =>
          \A i \in Positions :
              /\ FetchDone(i) /\ ~FetchFailed(i)
              /\ IsPutOf(i) /\ PutOf(i).settled = "resolved"
              /\ Matching(store, NameOf(addAll.h), addAll.batch[i]) # {}
    /\ (\E i \in Positions : InvalidForAddAll(addAll.batch[i]) \/ FetchFailed(i))
          => addAll.settled = "rejected"

\* an addAll of two different requests has resolved and both are stored
C12_Witness ==
    /\ addAll.settled = "resolved"
    /\ Len(addAll.batch) = 2
    /\ addAll.batch[1] # addAll.batch[2]
    /\ \A i \in Positions : Matching(store, NameOf(addAll.h), addAll.batch[i]) # {}

(***************************************************************************)
(* C15. addAll has no rollback across the batch: when the fetch of one     *)
(* request fails its check (206 or not ok) and the fetch of another passes,*)
(* the promise of addAll is rejected, no put is made for the failed one,   *)
(* and the put of the other is made all the same: once it has completed,   *)
(* its response is stored, also after the rejection.  Checked under        *)
(* SpecAddAll.                                                             *)
(***************************************************************************)
C15_AddAllNoRollback ==
    \A i, j \in Positions :
        (/\ addAll.awaited
         /\ FetchFailed(i)
         /\ FetchDone(j) /\ ~FetchFailed(j)) =>
            /\ addAll.settled = "rejected"
            /\ PutOf(i).op = "idle"
            /\ IsPutOf(j)
            /\ PutOf(j).settled = "resolved" =>
                  \E r \in Matching(store, NameOf(addAll.h), addAll.batch[j]) :
                      HoldsContentOf(r, addAll.fetched[j])

\* addAll was rejected for a failed fetch check, and the response of the other
\* request was stored after the rejection
C15_Witness ==
    \E i, j \in Positions :
        /\ addAll.settled = "rejected"
        /\ addAll.fetched[i].status \in {206, 404}
        /\ FetchFailed(i)
        /\ PutOf(j).settled = "resolved"
        /\ \E r \in Matching(store, NameOf(addAll.h), addAll.batch[j]) :
              /\ HoldsContentOf(r, addAll.fetched[j])
              /\ r \notin addAll.atSettle

(***************************************************************************)
(* C19. When a request of the batch fails the validation of addAll (scheme *)
(* not http/https, or method not GET), addAll rejects with a TypeError     *)
(* without a put for any request of the batch, also for valid requests     *)
(* listed before it whose fetch was started: the store stays as it was at  *)
(* the call.  Checked under SpecAddAll.                                    *)
(***************************************************************************)
C19_InvalidBatchStoresNothing ==
    (\E i \in Positions : InvalidForAddAll(addAll.batch[i])) =>
        /\ addAll.settled = "rejected"
        /\ addAll.error.name = "TypeError"
        /\ \A c \in Callers : calls[c].op = "idle"
        /\ store = addAll.before

\* the batch lists a valid request, whose fetch has come back ok, before an
\* invalid one; the records stored earlier are as they were
C19_Witness ==
    /\ Len(addAll.batch) = 2
    /\ ~InvalidForAddAll(addAll.batch[1])
    /\ InvalidForAddAll(addAll.batch[2])
    /\ addAll.settled = "rejected"
    /\ FetchDone(1) /\ ~FetchFailed(1)
    /\ store # {}
    /\ store = addAll.before

\* the URL a request of KeysRequests targets: its URL without the fragment
KeysTarget(url) ==
    IF url = UrlXq1f THEN UrlXq1 ELSE IF url = UrlXf1 THEN UrlX ELSE url

\* a URL of the model without its query string
WithoutSearch(url) == IF url \in {UrlXq1, UrlXq2} THEN UrlX ELSE url

(***************************************************************************)
(* C17. keys(request, options) returns an empty sequence when the method   *)
(* of the request is not GET and ignoreMethod is false; otherwise it       *)
(* returns one request per record of the cache name whose reqUrl equals    *)
(* the URL of the request without its fragment, where with ignoreSearch    *)
(* the query string is removed from both before they are compared.  The    *)
(* step in which the call resolves is compared with the store of that      *)
(* step.  Checked under SpecKeys.                                          *)
(***************************************************************************)
C17_KeysOfRequest ==
    [][\A c \in Callers :
        (/\ calls'[c] # calls[c]
         /\ calls'[c].op = "keys" /\ calls'[c].hasReq
         /\ calls'[c].settled = "resolved") =>
            LET R        == calls'[c].req
                out      == calls'[c].result
                same(r)  == IF calls'[c].ignoreSearch
                            THEN WithoutSearch(r.reqUrl) = WithoutSearch(KeysTarget(R.url))
                            ELSE r.reqUrl = KeysTarget(R.url)
                expected == IF R.method # "GET" /\ ~calls'[c].ignoreMethod
                            THEN {}
                            ELSE {r \in store : r.cacheName = NameOf(calls'[c].h) /\ same(r)}
            IN  /\ Len(out) = Cardinality(expected)
                /\ \A i \in 1..Len(out) : \E r \in expected : out[i].url = r.reqUrl
                /\ \A r \in expected :
                      Cardinality({i \in 1..Len(out) : out[i].url = r.reqUrl})
                        = Cardinality({q \in expected : q.reqUrl = r.reqUrl})]_vars

\* keys(x?q=1#frag1, ignoreSearch) has returned the records of x and of x?q=2
C17_Witness ==
    \E c \in Callers :
        /\ Resolved(c, "keys")
        /\ calls[c].req.url = UrlXq1f
        /\ calls[c].ignoreSearch
        /\ Len(calls[c].result) = 2
        /\ {calls[c].result[1].url, calls[c].result[2].url} = {UrlX, UrlXq2}

\* the token count of a text of the model with the tokenizer of a model id
ExpectedLength(modelId, text) ==
    IF modelId = "fallback"
    THEN (IF text = TextAbcd THEN 1 ELSE 2)
    ELSE (IF text = TextAbcd THEN 4 ELSE 8)

(***************************************************************************)
(* C20. In the token counter, whenever loading is false the displayed      *)
(* tokenCount is the length the worker computes for the current text with  *)
(* the current modelId: no response computed for an earlier text or an     *)
(* earlier modelId leaves its count on display with loading false.         *)
(* Checked under SpecWidget.                                               *)
(***************************************************************************)
C20_CountIsForCurrentTextAndModel ==
    (widget.mounted /\ ~widget.loading) =>
        widget.tokenCount = ExpectedLength(widget.modelId, widget.text)

====
